---- MODULE Spec2Model ----
(***************************************************************************)
(* The keepalive scripts of the repository as one state machine.           *)
(*                                                                         *)
(*   "main"   : the three-step script (pingUpstash, pingRender,            *)
(*              triggerSelfDispatch, main), src/unnamed/part_000           *)
(*   "legacy" : the single-step script (keepAlive), src/keepalive.js       *)
(*                                                                         *)
(* Every await of the code is a point where an action ends: the network    *)
(* call is put in flight by one action and its settlement (a response, a   *)
(* rejection) is another action, whose parameter is the outcome the        *)
(* outside world chose.                                                    *)
(***************************************************************************)
EXTENDS Integers, Sequences, FiniteSets, TLC

VARIABLES
    script,         \* which script this run executes
    env,            \* process.env: RENDER_PING_URL, GITHUB_TOKEN, GITHUB_REPOSITORY
    pc,             \* the position of the running script
    upstashResult,  \* main: const upstashResult
    renderResult,   \* main: const renderResult
    selfResult,     \* main: const selfResult
    renderRes,      \* pingRender: const res, the Response of the GET
    selfRes,        \* triggerSelfDispatch: const res, the Response of the POST
    bodyRead,       \* how res.text() settled: "unread", "resolved", "rejected"
    inflight,       \* the network calls awaiting their settlement
    calls,          \* every network call issued, in order of issue
    logs,           \* every console line written, in order
    exitCode        \* the process exit status (meaningful once pc = "exited")

vars == <<script, env, pc, upstashResult, renderResult, selfResult, renderRes,
          selfRes, bodyRead, inflight, calls, logs, exitCode>>

----------------------------------------------------------------------------
(* Values *)

\* An environment variable that is not set reads as undefined.
Undefined == "<undefined>"

\* The values an environment variable is drawn from: unset, empty, set.
EnvValues(v) == {Undefined, "", v}

\* A result constant of main that has not been assigned yet.
Pending == [pending |-> TRUE]

\* No Response is held.
NoRes == [none |-> TRUE]

\* What `new Redis(...)` can throw (a malformed or missing url).
ConstructErrors == {"UrlError"}

\* What `redis.set` can reject with: network, authentication, store error.
SetErrors == {"fetch failed", "WRONGPASS", "ERR max requests limit exceeded"}

\* What `fetch` can reject with.
FetchErrors == {"ECONNREFUSED", "ENOTFOUND"}

\* The response statuses the probe's endpoint is drawn from: both sides of
\* each end of the range the code tests, and some statuses inside and outside.
ProbeStatuses == {199, 200, 204, 301, 399, 400, 404, 500}

\* The responses the dispatch endpoint is drawn from.
DispatchStatuses == {200, 201, 202, 204, 404, 500}
DispatchBodies == {"", "Not Found"}
DispatchResponses == [status : DispatchStatuses, body : DispatchBodies]

\* console.log / console.warn / console.error, with the marker that opens
\* the line: "check" is the green check mark, "cross" the red cross,
\* "warning" the warning sign, "info" the information sign.
Line(stream, marker, op) == [stream |-> stream, marker |-> marker, op |-> op]

Has(r, f) == f \in DOMAIN r

----------------------------------------------------------------------------
(* Pure expressions of the code *)

\* `!x` on an environment value: undefined and the empty string are falsy.
Falsy_OnlyUndefined(v) == v = Undefined
Falsy(v) == v = Undefined \/ v = ""

\* `code >= 200 && code < 400`
ProbeOk_Inclusive(code) == code >= 200 /\ code <= 400
ProbeOk(code) == code >= 200 /\ code < 400

\* `res.status === 204`
DispatchSuccess_Any2xx(status) == status >= 200 /\ status < 300
DispatchSuccess(status) == status = 204

\* `https://api.github.com/repos/${repo}/dispatches`
DispatchUrl(repo) == <<"https://api.github.com/repos/", repo, "/dispatches">>

\* `!r.ok` and `r.skipped` on a result object: a missing property is undefined.
NotOk(r) == ~(Has(r, "ok") /\ r.ok)
Skipped(r) == Has(r, "skipped") /\ r.skipped

----------------------------------------------------------------------------
(* Initial state *)

Init ==
    /\ script \in {"main", "legacy"}
    /\ env \in [RENDER_PING_URL : EnvValues("https://app.onrender.com/health"),
                GITHUB_TOKEN : EnvValues("ghs_token"),
                GITHUB_REPOSITORY : EnvValues("owner/repo")]
    /\ pc = IF script = "main" THEN "main" ELSE "legacy_load"
    /\ upstashResult = Pending
    /\ renderResult = Pending
    /\ selfResult = Pending
    /\ renderRes = NoRes
    /\ selfRes = NoRes
    /\ bodyRead = "unread"
    /\ inflight = {}
    /\ calls = << >>
    /\ logs = << >>
    /\ exitCode = 0

----------------------------------------------------------------------------
(* main, up to its first await: the banner, then pingUpstash is entered *)

MainStart ==
    /\ pc = "main"
    /\ logs' = Append(logs, Line("log", "bell", "main"))
    /\ pc' = "pingUpstash"
    /\ UNCHANGED <<renderRes, script, env, upstashResult, renderResult, selfResult, selfRes,
                   bodyRead, inflight, calls, exitCode>>

----------------------------------------------------------------------------
(* pingUpstash *)

\* `new Redis` throws inside the try: caught, logged, a failure is returned
\* and main goes on to pingRender.
PingUpstashNewThrows ==
    /\ pc = "pingUpstash"
    /\ \E e \in ConstructErrors :
         upstashResult' = [ok |-> FALSE, error |-> e]
    /\ logs' = Append(logs, Line("error", "cross", "pingUpstash"))
    /\ pc' = "pingRender"
    /\ UNCHANGED <<renderRes, script, env, renderResult, selfResult, selfRes, bodyRead,
                   inflight, calls, exitCode>>

\* The client is constructed and `redis.set("keepalive", now)` is issued;
\* without the await main would go on while the write is in flight.
PingUpstashSet_NoAwait ==
    /\ pc = "pingUpstash"
    /\ calls' = Append(calls, [kind |-> "SET", key |-> "keepalive"])
    /\ inflight' = inflight \cup {"SET"}
    /\ pc' = "pingRender"
    /\ UNCHANGED <<renderRes, script, env, upstashResult, renderResult, selfResult, selfRes,
                   bodyRead, logs, exitCode>>

PingUpstashSet ==
    /\ pc = "pingUpstash"
    /\ calls' = Append(calls, [kind |-> "SET", key |-> "keepalive"])
    /\ inflight' = inflight \cup {"SET"}
    /\ pc' = "pingUpstash_await"
    /\ UNCHANGED <<renderRes, script, env, upstashResult, renderResult, selfResult, selfRes,
                   bodyRead, logs, exitCode>>

RedisSetResolves ==
    /\ pc = "pingUpstash_await"
    /\ "SET" \in inflight
    /\ inflight' = inflight \ {"SET"}
    /\ logs' = Append(logs, Line("log", "check", "pingUpstash"))
    /\ upstashResult' = [ok |-> TRUE]
    /\ pc' = "pingRender"
    /\ UNCHANGED <<renderRes, script, env, renderResult, selfResult, selfRes, bodyRead,
                   calls, exitCode>>

\* A rejected write that is issued again instead of being reported.
RedisSetRejects_Retry ==
    /\ pc = "pingUpstash_await"
    /\ "SET" \in inflight
    /\ Len(calls) < 3
    /\ calls' = Append(calls, [kind |-> "SET", key |-> "keepalive"])
    /\ UNCHANGED <<renderRes, script, env, pc, upstashResult, renderResult, selfResult,
                   selfRes, bodyRead, inflight, logs, exitCode>>

RedisSetRejects ==
    /\ pc = "pingUpstash_await"
    /\ "SET" \in inflight
    /\ inflight' = inflight \ {"SET"}
    /\ \E e \in SetErrors :
         upstashResult' = [ok |-> FALSE, error |-> e]
    /\ logs' = Append(logs, Line("error", "cross", "pingUpstash"))
    /\ pc' = "pingRender"
    /\ UNCHANGED <<renderRes, script, env, renderResult, selfResult, selfRes, bodyRead,
                   calls, exitCode>>

----------------------------------------------------------------------------
(* pingRender *)

\* A missing URL reported as a failed probe instead of a skipped one.
PingRenderSkip_AsFailure ==
    /\ pc = "pingRender"
    /\ Falsy(env.RENDER_PING_URL)
    /\ logs' = Append(logs, Line("error", "cross", "pingRender"))
    /\ renderResult' = [ok |-> FALSE, error |-> "no url"]
    /\ pc' = "triggerSelfDispatch"
    /\ UNCHANGED <<renderRes, script, env, upstashResult, selfResult, selfRes, bodyRead,
                   inflight, calls, exitCode>>

PingRenderSkip ==
    /\ pc = "pingRender"
    /\ Falsy(env.RENDER_PING_URL)
    /\ logs' = Append(logs, Line("log", "info", "pingRender"))
    /\ renderResult' = [skipped |-> TRUE]
    /\ pc' = "triggerSelfDispatch"
    /\ UNCHANGED <<renderRes, script, env, upstashResult, selfResult, selfRes, bodyRead,
                   inflight, calls, exitCode>>

PingRenderFetch ==
    /\ pc = "pingRender"
    /\ ~Falsy(env.RENDER_PING_URL)
    /\ calls' = Append(calls, [kind |-> "GET", url |-> env.RENDER_PING_URL])
    /\ inflight' = inflight \cup {"GET"}
    /\ pc' = "pingRender_await"
    /\ UNCHANGED <<renderRes, script, env, upstashResult, renderResult, selfResult, selfRes,
                   bodyRead, logs, exitCode>>

RenderResponds ==
    /\ pc = "pingRender_await"
    /\ "GET" \in inflight
    /\ inflight' = inflight \ {"GET"}
    /\ \E code \in ProbeStatuses :
         /\ renderRes' = [status |-> code]
         /\ renderResult' = [ok |-> ProbeOk(code), status |-> code]
    /\ logs' = Append(logs, Line("log", "check", "pingRender"))
    /\ pc' = "triggerSelfDispatch"
    /\ UNCHANGED <<script, env, upstashResult, selfResult, selfRes, bodyRead,
                   calls, exitCode>>

RenderFetchRejects ==
    /\ pc = "pingRender_await"
    /\ "GET" \in inflight
    /\ inflight' = inflight \ {"GET"}
    /\ \E e \in FetchErrors :
         renderResult' = [ok |-> FALSE, error |-> e]
    /\ logs' = Append(logs, Line("error", "cross", "pingRender"))
    /\ pc' = "triggerSelfDispatch"
    /\ UNCHANGED <<renderRes, script, env, upstashResult, selfResult, selfRes, bodyRead,
                   calls, exitCode>>

----------------------------------------------------------------------------
(* triggerSelfDispatch *)

DispatchSkipToken ==
    /\ pc = "triggerSelfDispatch"
    /\ Falsy(env.GITHUB_TOKEN)
    /\ logs' = logs \o << Line("warn", "warning", "triggerSelfDispatch"),
                          Line("warn", "none", "triggerSelfDispatch") >>
    /\ selfResult' = [skipped |-> TRUE]
    /\ pc' = "main_summary"
    /\ UNCHANGED <<renderRes, script, env, upstashResult, renderResult, selfRes, bodyRead,
                   inflight, calls, exitCode>>

DispatchSkipRepo ==
    /\ pc = "triggerSelfDispatch"
    /\ ~Falsy(env.GITHUB_TOKEN)
    /\ Falsy(env.GITHUB_REPOSITORY)
    /\ logs' = Append(logs, Line("warn", "warning", "triggerSelfDispatch"))
    /\ selfResult' = [skipped |-> TRUE]
    /\ pc' = "main_summary"
    /\ UNCHANGED <<renderRes, script, env, upstashResult, renderResult, selfRes, bodyRead,
                   inflight, calls, exitCode>>

DispatchFetch ==
    /\ pc = "triggerSelfDispatch"
    /\ ~Falsy(env.GITHUB_TOKEN)
    /\ ~Falsy(env.GITHUB_REPOSITORY)
    /\ calls' = Append(calls, [kind |-> "POST",
                               url |-> DispatchUrl(env.GITHUB_REPOSITORY),
                               bearer |-> env.GITHUB_TOKEN,
                               event_type |-> "keepalive"])
    /\ inflight' = inflight \cup {"POST"}
    /\ pc' = "triggerSelfDispatch_await"
    /\ UNCHANGED <<renderRes, script, env, upstashResult, renderResult, selfResult, selfRes,
                   bodyRead, logs, exitCode>>

\* The response arrives: 204 returns success at once, any other status goes
\* on to read the body (the second await of the function).
DispatchResponds ==
    /\ pc = "triggerSelfDispatch_await"
    /\ "POST" \in inflight
    /\ inflight' = inflight \ {"POST"}
    /\ \E r \in DispatchResponses :
         /\ selfRes' = r
         /\ IF DispatchSuccess(r.status)
            THEN /\ logs' = Append(logs, Line("log", "check", "triggerSelfDispatch"))
                 /\ selfResult' = [ok |-> TRUE]
                 /\ pc' = "main_summary"
            ELSE /\ UNCHANGED <<logs, selfResult>>
                 /\ pc' = "triggerSelfDispatch_text"
    /\ UNCHANGED <<renderRes, script, env, upstashResult, renderResult, bodyRead, calls,
                   exitCode>>

DispatchTextResolves ==
    /\ pc = "triggerSelfDispatch_text"
    /\ bodyRead' = "resolved"
    /\ logs' = Append(logs, Line("warn", "warning", "triggerSelfDispatch"))
    /\ selfResult' = [ok |-> FALSE, status |-> selfRes.status, text |-> selfRes.body]
    /\ pc' = "main_summary"
    /\ UNCHANGED <<renderRes, script, env, upstashResult, renderResult, selfRes, inflight,
                   calls, exitCode>>

\* Without `.catch(() => "")` the rejection would reach the outer catch.
DispatchTextRejects_NoCatch ==
    /\ pc = "triggerSelfDispatch_text"
    /\ bodyRead' = "rejected"
    /\ logs' = Append(logs, Line("error", "cross", "triggerSelfDispatch"))
    /\ selfResult' = [ok |-> FALSE, error |-> "body stream error"]
    /\ pc' = "main_summary"
    /\ UNCHANGED <<renderRes, script, env, upstashResult, renderResult, selfRes, inflight,
                   calls, exitCode>>

DispatchTextRejects ==
    /\ pc = "triggerSelfDispatch_text"
    /\ bodyRead' = "rejected"
    /\ logs' = Append(logs, Line("warn", "warning", "triggerSelfDispatch"))
    /\ selfResult' = [ok |-> FALSE, status |-> selfRes.status, text |-> ""]
    /\ pc' = "main_summary"
    /\ UNCHANGED <<renderRes, script, env, upstashResult, renderResult, selfRes, inflight,
                   calls, exitCode>>

DispatchFetchRejects ==
    /\ pc = "triggerSelfDispatch_await"
    /\ "POST" \in inflight
    /\ inflight' = inflight \ {"POST"}
    /\ \E e \in FetchErrors :
         selfResult' = [ok |-> FALSE, error |-> e]
    /\ logs' = Append(logs, Line("error", "cross", "triggerSelfDispatch"))
    /\ pc' = "main_summary"
    /\ UNCHANGED <<renderRes, script, env, upstashResult, renderResult, selfRes, bodyRead,
                   calls, exitCode>>

----------------------------------------------------------------------------
(* main, after its last await: the summary warnings and process.exit(0) *)

SummaryLines ==
    (IF NotOk(upstashResult)
        THEN << Line("warn", "warning", "main") >> ELSE << >>)
    \o (IF Skipped(selfResult)
           THEN << Line("warn", "warning", "main") >>
           ELSE IF NotOk(selfResult)
                   THEN << Line("warn", "warning", "main") >> ELSE << >>)
    \o << Line("log", "end", "main") >>

MainFinish ==
    /\ pc = "main_summary"
    /\ logs' = logs \o SummaryLines
    /\ exitCode' = 0
    /\ pc' = "exited"
    /\ UNCHANGED <<renderRes, script, env, upstashResult, renderResult, selfResult, selfRes,
                   bodyRead, inflight, calls>>

----------------------------------------------------------------------------
(* The single-step script: module-level client, then keepAlive() *)

\* `new Redis` at module level is outside any try: the exception is
\* uncaught and the process ends with status 1.
LegacyNewThrows ==
    /\ pc = "legacy_load"
    /\ exitCode' = 1
    /\ pc' = "exited"
    /\ UNCHANGED <<renderRes, script, env, upstashResult, renderResult, selfResult, selfRes,
                   bodyRead, inflight, calls, logs>>

LegacySet ==
    /\ pc = "legacy_load"
    /\ calls' = Append(calls, [kind |-> "SET", key |-> "keepalive"])
    /\ inflight' = inflight \cup {"SET"}
    /\ pc' = "keepAlive_await"
    /\ UNCHANGED <<renderRes, script, env, upstashResult, renderResult, selfResult, selfRes,
                   bodyRead, logs, exitCode>>

\* The write succeeds, the line is logged and the process ends by itself.
LegacySetResolves ==
    /\ pc = "keepAlive_await"
    /\ "SET" \in inflight
    /\ inflight' = inflight \ {"SET"}
    /\ logs' = Append(logs, Line("log", "check", "keepAlive"))
    /\ exitCode' = 0
    /\ pc' = "exited"
    /\ UNCHANGED <<renderRes, script, env, upstashResult, renderResult, selfResult, selfRes,
                   bodyRead, calls>>

\* The write fails: console.error, then process.exit(1).
LegacySetRejects ==
    /\ pc = "keepAlive_await"
    /\ "SET" \in inflight
    /\ inflight' = inflight \ {"SET"}
    /\ logs' = Append(logs, Line("error", "cross", "keepAlive"))
    /\ exitCode' = 1
    /\ pc' = "exited"
    /\ UNCHANGED <<renderRes, script, env, upstashResult, renderResult, selfResult, selfRes,
                   bodyRead, calls>>

----------------------------------------------------------------------------
(* Specifications *)

Next ==
    \/ MainStart
    \/ PingUpstashNewThrows
    \/ PingUpstashSet
    \/ RedisSetResolves
    \/ RedisSetRejects
    \/ PingRenderSkip
    \/ PingRenderFetch
    \/ RenderResponds
    \/ RenderFetchRejects
    \/ DispatchSkipToken
    \/ DispatchSkipRepo
    \/ DispatchFetch
    \/ DispatchResponds
    \/ DispatchTextResolves
    \/ DispatchTextRejects
    \/ DispatchFetchRejects
    \/ MainFinish
    \/ LegacyNewThrows
    \/ LegacySet
    \/ LegacySetResolves
    \/ LegacySetRejects

Spec == Init /\ [][Next]_vars

\* The code after the last await of main is synchronous: once the dispatch
\* step has returned, the event loop runs it to process.exit.
FairSpec == Spec /\ WF_vars(MainFinish)

----------------------------------------------------------------------------
(* Vocabulary of the properties *)

Assigned(r) == r # Pending

\* A configuration value that is absent: not set, or set to the empty string.
Absent(v) == v \in {Undefined, ""}

Count(kind) == Cardinality({i \in 1..Len(calls) : calls[i].kind = kind})

IsMain == script = "main"

\* The positions of main after pingUpstash, pingRender, triggerSelfDispatch
\* have returned.
AfterUpstash == {"pingRender", "pingRender_await", "triggerSelfDispatch",
                 "triggerSelfDispatch_await", "triggerSelfDispatch_text",
                 "main_summary", "exited"}
AfterRender == {"triggerSelfDispatch", "triggerSelfDispatch_await",
                "triggerSelfDispatch_text", "main_summary", "exited"}
AfterDispatch == {"main_summary", "exited"}

\* The store write of this run failed: pingUpstash returned a failure, or
\* keepAlive's catch logged its error line.
StoreWriteFailed ==
    \/ Assigned(upstashResult) /\ NotOk(upstashResult)
    \/ \E i \in 1..Len(logs) : logs[i] = Line("error", "cross", "keepAlive")

\* The lines an operation wrote to the console.
LinesOf(op) == {i \in 1..Len(logs) : logs[i].op = op}

Rank(kind) == CASE kind = "SET" -> 1 [] kind = "GET" -> 2 [] kind = "POST" -> 3

----------------------------------------------------------------------------
(* C1 *)

\* C1: whenever the process has exited, whatever the outcomes of the store
\* write, the probe and the dispatch, its exit status is zero.
C1_ExitStatusZero == pc = "exited" => exitCode = 0

\* The same restricted to the three-step script, where it holds.
MainExitStatusZero == (IsMain /\ pc = "exited") => exitCode = 0

----------------------------------------------------------------------------
(* C2 *)

\* C2: a run whose store write failed has recorded the failure as an outcome
\* and has attempted the probe and then the dispatch before it ends.
C2_StoreFailureDoesNotHalt ==
    (StoreWriteFailed /\ pc = "exited") =>
        /\ Assigned(upstashResult) /\ NotOk(upstashResult)
        /\ Assigned(renderResult)
        /\ Assigned(selfResult)

\* The same restricted to the three-step script, where it holds.
MainStoreFailureDoesNotHalt ==
    (IsMain /\ StoreWriteFailed) =>
        /\ pc \in AfterUpstash
        /\ pc = "exited" => Assigned(renderResult) /\ Assigned(selfResult)

----------------------------------------------------------------------------
(* C3 *)

\* C3: with the token or the repository identifier unset or empty, no POST
\* is ever issued, and once triggerSelfDispatch has returned its outcome is
\* exactly {skipped: true}.
C3_DispatchSkipped ==
    (Absent(env.GITHUB_TOKEN) \/ Absent(env.GITHUB_REPOSITORY)) =>
        /\ Count("POST") = 0
        /\ "POST" \notin inflight
        /\ Assigned(selfResult) => selfResult = [skipped |-> TRUE]
        /\ (IsMain /\ pc \in AfterDispatch) => Assigned(selfResult)

C3_Witness ==
    /\ pc = "exited"
    /\ ~Absent(env.GITHUB_TOKEN)
    /\ env.GITHUB_REPOSITORY = ""
    /\ selfResult = [skipped |-> TRUE]

----------------------------------------------------------------------------
(* C4 *)

\* C4: with the health-check URL unset or empty no GET is ever issued and
\* the probe's outcome is exactly {skipped: true}; with the URL set, once
\* pingRender has returned one GET has been issued and the outcome is not
\* skipped.
C4_ProbeSkipped ==
    /\ Absent(env.RENDER_PING_URL) =>
          /\ Count("GET") = 0
          /\ Assigned(renderResult) => renderResult = [skipped |-> TRUE]
    /\ ~Absent(env.RENDER_PING_URL) =>
          (Assigned(renderResult) =>
              /\ Count("GET") = 1
              /\ ~Skipped(renderResult)
              /\ Has(renderResult, "ok"))
    /\ (IsMain /\ pc \in AfterRender) => Assigned(renderResult)

C4_Witness ==
    /\ pc = "exited"
    /\ env.RENDER_PING_URL = ""
    /\ renderResult = [skipped |-> TRUE]
    /\ Count("GET") = 0

----------------------------------------------------------------------------
(* C5 *)

\* C5: once the POST has been made and triggerSelfDispatch has returned,
\* the outcome is success exactly when the response status is 204; any
\* other status gives ok = false with that status and the body text that
\* was read; a network error gives ok = false with the error.
C5_DispatchOnly204 ==
    (Count("POST") = 1 /\ Assigned(selfResult)) =>
        /\ Has(selfResult, "ok")
        /\ selfResult.ok <=> (selfRes # NoRes /\ selfRes.status = 204)
        /\ (selfRes # NoRes /\ selfRes.status = 204) => selfResult = [ok |-> TRUE]
        /\ (selfRes # NoRes /\ selfRes.status # 204) =>
              /\ Has(selfResult, "status") /\ selfResult.status = selfRes.status
              /\ Has(selfResult, "text")
              /\ bodyRead = "resolved" => selfResult.text = selfRes.body
        /\ selfRes = NoRes =>
              Has(selfResult, "error") /\ selfResult.error \in FetchErrors

C5_Witness ==
    /\ pc = "exited"
    /\ selfRes # NoRes
    /\ selfRes.status = 201
    /\ selfResult = [ok |-> FALSE, status |-> 201, text |-> "Not Found"]

----------------------------------------------------------------------------
(* C6 *)

\* C6: once the GET has been made and pingRender has returned, the outcome
\* carries the response status s and is success exactly when
\* 200 <= s <= 399; a network error gives ok = false with the error.
C6_ProbeRange ==
    (Count("GET") = 1 /\ Assigned(renderResult)) =>
        /\ renderRes # NoRes =>
              /\ renderResult =
                    [ok |-> (200 <= renderRes.status /\ renderRes.status <= 399),
                     status |-> renderRes.status]
        /\ renderRes = NoRes =>
              /\ ~renderResult.ok
              /\ Has(renderResult, "error") /\ renderResult.error \in FetchErrors

C6_Witness ==
    /\ pc = "exited"
    /\ renderRes # NoRes
    /\ renderRes.status = 400
    /\ renderResult = [ok |-> FALSE, status |-> 400]

----------------------------------------------------------------------------
(* C7 *)

\* C7: in a run of main the calls are issued in the order store write,
\* GET, POST; at most one call is in flight; an operation starts only once
\* the outcome of the one before it is recorded, with its own call settled;
\* and the process exits only with all three outcomes recorded.
C7_Sequential ==
    IsMain =>
        /\ Cardinality(inflight) <= 1
        /\ \A i, j \in 1..Len(calls) :
              i < j => Rank(calls[i].kind) < Rank(calls[j].kind)
        /\ (Count("GET") > 0 \/ Assigned(renderResult)) =>
              Assigned(upstashResult) /\ "SET" \notin inflight
        /\ (Count("POST") > 0 \/ Assigned(selfResult)) =>
              Assigned(renderResult) /\ "GET" \notin inflight
        /\ pc = "exited" =>
              /\ Assigned(upstashResult)
              /\ Assigned(renderResult)
              /\ Assigned(selfResult)
              /\ inflight = {}

C7_Witness ==
    /\ IsMain
    /\ pc = "exited"
    /\ Len(calls) = 3
    /\ calls[1].kind = "SET" /\ calls[2].kind = "GET" /\ calls[3].kind = "POST"

----------------------------------------------------------------------------
(* C8 *)

\* C8: as the claim states it, a finished run of main has made exactly one store write,
\* with the key "keepalive", at most one GET and at most one POST.
C8_ExactlyOneWrite ==
    (IsMain /\ pc = "exited") =>
        /\ Count("SET") = 1
        /\ \A i \in 1..Len(calls) :
              calls[i].kind = "SET" => calls[i].key = "keepalive"
        /\ Count("GET") <= 1
        /\ Count("POST") <= 1

\* The client's construction threw, so pingUpstash never reached redis.set.
ConstructionFailed ==
    Has(upstashResult, "error") /\ upstashResult.error \in ConstructErrors

\* C8: as amended, at any moment of any run there is at most one store
\* write, one GET and one POST, every store write uses the key "keepalive",
\* and once pingUpstash has returned there is exactly one store write unless
\* the client's construction threw, in which case there is none.
C8_SingleAttempt ==
    /\ Count("SET") <= 1
    /\ Count("GET") <= 1
    /\ Count("POST") <= 1
    /\ \A i \in 1..Len(calls) :
          calls[i].kind = "SET" => calls[i].key = "keepalive"
    /\ (IsMain /\ pc \in AfterUpstash) =>
          Count("SET") = (IF ConstructionFailed THEN 0 ELSE 1)

C8_Witness ==
    /\ IsMain
    /\ pc = "exited"
    /\ Has(upstashResult, "error") /\ upstashResult.error \in SetErrors
    /\ Count("SET") = 1

----------------------------------------------------------------------------
(* C9 *)

\* An operation's outcome is an error condition (a failure or a skip) and
\* every line the operation logged carries a marker other than the one of a
\* success line.
MarkedAsError(r, op) ==
    (Assigned(r) /\ NotOk(r)) =>
        /\ LinesOf(op) # {}
        /\ \A i \in LinesOf(op) : logs[i].marker # "check"

\* C9: every failure or skip of the three operations is recorded as an
\* outcome and logged with a marker that differs from the success marker.
C9_ErrorsMarked ==
    /\ MarkedAsError(upstashResult, "pingUpstash")
    /\ MarkedAsError(renderResult, "pingRender")
    /\ MarkedAsError(selfResult, "triggerSelfDispatch")

\* The part of C9 that holds: the failures and skips of the store write and
\* of the dispatch are marked, and so are the probe's skip and network error.
ErrorsMarkedExceptProbeStatus ==
    /\ MarkedAsError(upstashResult, "pingUpstash")
    /\ MarkedAsError(selfResult, "triggerSelfDispatch")
    /\ ~Has(renderResult, "status") => MarkedAsError(renderResult, "pingRender")

----------------------------------------------------------------------------
(* C10 *)

\* C10: once the body read of a non-204 dispatch response has been rejected,
\* the dispatch outcome is the failure record with the response status and
\* the empty text, the process never exits with a non-zero status, and the
\* run goes on to exit with status zero.
C10_BodyReadRejected ==
    /\ [](bodyRead = "rejected" =>
            /\ selfRes.status # 204
            /\ selfResult = [ok |-> FALSE, status |-> selfRes.status, text |-> ""]
            /\ pc \in AfterDispatch
            /\ pc = "exited" => exitCode = 0)
    /\ (bodyRead = "rejected") ~> (pc = "exited" /\ exitCode = 0)

C10_Witness ==
    /\ bodyRead = "rejected"
    /\ selfRes.body # ""
    /\ selfResult = [ok |-> FALSE, status |-> selfRes.status, text |-> ""]
    /\ pc = "exited"
    /\ exitCode = 0

====
